---- MODULE Spec2Model ----
\* A model of the Ethereum dual node of go-kardia (package dualnode/eth):
\* the head tracker (syncHead), the block handler (handleBlock), the test
\* trigger source (mockBlockGenerationRoutine) and the poll-triggered
\* settlement (SubmitTx / submitEthReleaseTx).
EXTENDS Integers, Sequences, FiniteSets, TLC

\* ---------------------------------------------------------------------------
\* Bounds of the model
\* ---------------------------------------------------------------------------

\* head notifications the source chain publishes in one run of the head tracker
MaxHeads == 2

\* head notifications the source chain publishes in one run of the relay
MaxBlocks == 1

\* blocks the trigger source synthesizes in one run
MaxGenerated == 2

\* largest nonce value an account takes
MaxNonce == 2

\* poll cycles (calls of SubmitTx) in one run
MaxPolls == 2

\* bytes of a hash (32 in the program)
HashLength == 2

\* bytes of the word a contract call returns (32 in the program)
WordLength == 2

\* ---------------------------------------------------------------------------
\* Program constants
\* ---------------------------------------------------------------------------

headChannelSize == 5

blockChSize == 1

ContractAddress == "bridge"

DualStateAddressHex == "dualState"

ETHEREUM == "ETH"

\* ---------------------------------------------------------------------------
\* Blocks and transactions of the source chain
\* ---------------------------------------------------------------------------

\* tx.To() is a pointer: <<>> is nil (contract creation), <<a>> is address a
Tx(id, to, input, value) == [id |-> id, to |-> to, input |-> input, value |-> value]

EthBlock(number, txs) == [isNil |-> FALSE, number |-> number, txs |-> txs]

NilBlock == [isNil |-> TRUE, number |-> 0, txs |-> <<>>]

DepositTxs == << Tx(1, <<"bridge">>, <<1, 0>>, 1000) >>

MixedTxs ==
    << Tx(1, <<"other">>, <<1>>, 5),
       Tx(2, <<"bridge">>, <<1, 7>>, 1000),
       Tx(3, <<>>, <<>>, 7),
       Tx(4, <<"bridge">>, <<2>>, 500) >>

BadInputTxs ==
    << Tx(1, <<"bridge">>, <<2>>, 500),
       Tx(2, <<"bridge">>, <<9>>, 3),
       Tx(3, <<"bridge">>, <<1>>, 1000) >>

\* what a head notification of the source chain can carry
TxCatalogue == {<<>>, DepositTxs, MixedTxs, BadInputTxs}

HeadBlocks(number) == {NilBlock} \cup {EthBlock(number, txs) : txs \in TxCatalogue}

SimpleHeadBlocks(number) == {NilBlock, EthBlock(number, DepositTxs)}

\* tx.Hash(): an array of HashLength bytes
TxHash(number, tx) == [i \in 1..HashLength |-> (16 * number + tx.id + i) % 256]

\* common.BytesToHash: the bytes right-aligned in a hash, cropped from the left
BytesToHash(b) ==
    LET n == Len(b)
    IN [i \in 1..HashLength |->
          IF n >= HashLength THEN b[n - HashLength + i]
          ELSE IF i <= HashLength - n THEN 0 ELSE b[i - (HashLength - n)]]

\* ethSmc.InputMethodName: the method selected by the head of the call input
InputMethodName(input) ==
    IF Len(input) >= 1 /\ input[1] = 1 THEN [err |-> FALSE, method |-> "deposit"]
    ELSE IF Len(input) >= 1 /\ input[1] = 2 THEN [err |-> FALSE, method |-> "release"]
    ELSE [err |-> TRUE, method |-> ""]

\* ---------------------------------------------------------------------------
\* State
\* ---------------------------------------------------------------------------

VARIABLES
    lightNode,          \* config.LightNode
    triggering,         \* config.DualNodeConfig: <<>> (nil) or <<TriggeringConfig>>
    internalChain,      \* n.internalChain # nil
    syncPc,             \* syncHead: "notStarted", "failed", "returned", "draining"
    subEnded,           \* headSubCh.Err() has fired
    chainHeadEventCh,   \* channel of ChainHeadEvent, capacity headChannelSize
    headsSent,          \* number of head notifications published
    fwdPc,              \* listener goroutine: "off", "listening", "stopped"
    blockCh,            \* channel of *Block, capacity 1
    mock,               \* mockBlockGenerationRoutine
    handlers,           \* the handleBlock goroutines, in dispatch order
    crashed,            \* an unrecovered panic ended the process
    dualState,          \* account nonces of the dual chain state
    assembled,          \* the events built by NewDualEvent, in assembly order
    poolOffers,         \* calls of eventPool.AddEvent, in call order
    kardiaPending,      \* amount getEthToSend returns from Kardia state
    ethNonce,           \* nonce of the signing account in Ethereum state
    polls,              \* the SubmitTx calls
    ethTxPool,          \* calls of ethTxPool().AddLocal, in call order
    txPool,             \* calls of txPool.AddLocal (Kardia), in call order
    confirmed,          \* the calls of txPool whose transaction a Kardia block holds
    metaCall            \* the last call of ComputeTxMetadata: <<>> or <<its record>>

relayVars ==
    <<lightNode, triggering, internalChain, syncPc, subEnded, chainHeadEventCh,
      headsSent, fwdPc, blockCh, mock, handlers, dualState, assembled,
      poolOffers>>

settleVars == <<kardiaPending, ethNonce, polls, ethTxPool, txPool, confirmed, metaCall>>

vars == <<relayVars, settleVars, crashed>>

\* ---------------------------------------------------------------------------
\* Construction (NewEth) and the configurations the node is built with
\* ---------------------------------------------------------------------------

TriggeringConfig(intervals, repeat) ==
    [TimeIntervals |-> intervals, RepeatInfinitely |-> repeat]

TriggeringConfigs ==
    { TriggeringConfig(<<7, 3>>, FALSE), TriggeringConfig(<<7, 3>>, TRUE) }

\* no poll has been made and the contract holds nothing
SettleIdle ==
    /\ kardiaPending = 0
    /\ ethNonce = 0
    /\ polls = <<>>
    /\ ethTxPool = <<>>
    /\ txPool = <<>>
    /\ confirmed = {}
    /\ metaCall = <<>>

MockOff == [pc |-> "off", k |-> 0, block |-> <<>>, slept |-> <<>>, generated |-> 0]

InitRelay ==
    /\ internalChain = FALSE
    /\ syncPc = "notStarted"
    /\ subEnded = FALSE
    /\ chainHeadEventCh = <<>>
    /\ headsSent = 0
    /\ fwdPc = "off"
    /\ blockCh = <<>>
    /\ mock = MockOff
    /\ handlers = <<>>
    /\ crashed = FALSE
    /\ dualState = [a \in {DualStateAddressHex, "other"} |-> IF a = DualStateAddressHex THEN 1 ELSE 0]
    /\ assembled = <<>>
    /\ poolOffers = <<>>

InitSettle ==
    /\ kardiaPending \in {0, 500}
    /\ ethNonce \in {0, 3}
    /\ polls = <<>>
    /\ ethTxPool = <<>>
    /\ txPool = <<>>
    /\ confirmed = {}
    /\ metaCall = <<>>

\* ---------------------------------------------------------------------------
\* Start, RegisterInternalChain and the head tracker (syncHead)
\* ---------------------------------------------------------------------------

\* n.internalChain = internalChain
RegisterInternalChain ==
    /\ ~crashed
    /\ ~internalChain
    /\ internalChain' = TRUE
    /\ UNCHANGED <<lightNode, triggering, syncPc, subEnded, chainHeadEventCh, headsSent,
                   fwdPc, blockCh, mock, handlers, dualState, assembled,
                   poolOffers, settleVars, crashed>>

\* where the loops of mockBlockGenerationRoutine stand after index k (0-based)
\* of the range over TimeIntervals has been handled; k = -1 before the first
MockLoopNextOnePass(cfg, k) ==
    IF k + 1 < Len(cfg.TimeIntervals) THEN [pc |-> "sleep", k |-> k + 1]
    ELSE [pc |-> "done", k |-> 0]

MockLoopNext(cfg, k) ==
    IF k + 1 < Len(cfg.TimeIntervals) THEN [pc |-> "sleep", k |-> k + 1]
    ELSE IF ~cfg.RepeatInfinitely THEN [pc |-> "done", k |-> 0]
    ELSE IF Len(cfg.TimeIntervals) > 0 THEN [pc |-> "sleep", k |-> 0]
    ELSE [pc |-> "spin", k |-> 0]

\* Start: geth.Start() and, when it succeeds, go n.syncHead() up to its drain
\* loop: the eth service lookup, the subscription, the listener goroutine and
\* the trigger source
Start ==
    /\ ~crashed
    /\ syncPc = "notStarted"
    /\ \E ok \in BOOLEAN :
         IF ~ok THEN
            /\ syncPc' = "failed"
            /\ UNCHANGED <<fwdPc, mock>>
         ELSE IF lightNode THEN
            \* ethService == nil: "Not implement dual sync for Eth light mode yet"
            /\ syncPc' = "returned"
            /\ UNCHANGED <<fwdPc, mock>>
         ELSE
            /\ syncPc' = "draining"
            /\ fwdPc' = "listening"
            /\ mock' = IF triggering = <<>> THEN mock
                       ELSE LET nx == MockLoopNext(triggering[1], -1)
                            IN [mock EXCEPT !.pc = nx.pc, !.k = nx.k]
    /\ UNCHANGED <<lightNode, triggering, internalChain, subEnded, chainHeadEventCh,
                   headsSent, blockCh, handlers, dualState, assembled,
                   poolOffers, settleVars, crashed>>

\* the source chain publishes a head notification on the subscribed channel
ChainHead(blocks, max) ==
    /\ ~crashed
    /\ syncPc = "draining"
    /\ ~subEnded
    /\ headsSent < max
    /\ Len(chainHeadEventCh) < headChannelSize
    /\ \E b \in blocks :
         chainHeadEventCh' = Append(chainHeadEventCh, [Block |-> b])
    /\ headsSent' = headsSent + 1
    /\ UNCHANGED <<lightNode, triggering, internalChain, syncPc, subEnded, fwdPc,
                   blockCh, mock, handlers, dualState, assembled, poolOffers,
                   settleVars, crashed>>

\* the heads are numbered in publication order
ChainHeadAny == ChainHead(HeadBlocks(headsSent + 1), MaxBlocks)

ChainHeadSimple == ChainHead(SimpleHeadBlocks(headsSent + 1), MaxHeads)

\* the subscription ends: headSubCh.Err() becomes ready
SubscriptionErr ==
    /\ ~crashed
    /\ syncPc = "draining"
    /\ ~subEnded
    /\ subEnded' = TRUE
    /\ UNCHANGED <<lightNode, triggering, internalChain, syncPc, chainHeadEventCh,
                   headsSent, fwdPc, blockCh, mock, handlers, dualState,
                   assembled, poolOffers, settleVars, crashed>>

\* select { case blockCh <- head.Block: default: } of the listener
ListenerInsertKeepNewest(buf, block) ==
    IF Len(buf) < blockChSize THEN Append(buf, block) ELSE <<block>>

ListenerInsert(buf, block) ==
    IF Len(buf) < blockChSize THEN Append(buf, block) ELSE buf

\* case head := <-chainHeadEventCh of the listener goroutine
ListenerForward ==
    /\ ~crashed
    /\ fwdPc = "listening"
    /\ chainHeadEventCh # <<>>
    /\ blockCh' = ListenerInsert(blockCh, Head(chainHeadEventCh).Block)
    /\ chainHeadEventCh' = Tail(chainHeadEventCh)
    /\ UNCHANGED <<lightNode, triggering, internalChain, syncPc, subEnded, headsSent,
                   fwdPc, mock, handlers, dualState, assembled, poolOffers,
                   settleVars, crashed>>

\* case <-headSubCh.Err(): break ListenerLoop
ListenerBreak ==
    /\ ~crashed
    /\ fwdPc = "listening"
    /\ subEnded
    /\ fwdPc' = "stopped"
    /\ UNCHANGED <<lightNode, triggering, internalChain, syncPc, subEnded,
                   chainHeadEventCh, headsSent, blockCh, mock, handlers, dualState,
                   assembled, poolOffers, settleVars, crashed>>

\* ---------------------------------------------------------------------------
\* The trigger source (mockBlockGenerationRoutine)
\* ---------------------------------------------------------------------------

\* for timeout := range triggeringConfig.TimeIntervals: the loop variable of a
\* one-variable range over a slice is the index k (0-based)
RangeTimeout(intervals, k) == k

\* triggeringConfig.GenerateEthBlock(contractAddr)
GenerateEthBlock(contractAddr) ==
    EthBlock(0, << Tx(1, <<contractAddr>>, <<1>>, 1000) >>)

\* time.Sleep(timeout ms), then the block is generated
mockSleepGenerate ==
    /\ ~crashed
    /\ mock.pc = "sleep"
    /\ mock.generated < MaxGenerated
    /\ mock' = [mock EXCEPT
                  !.pc = "send",
                  !.slept = Append(@, RangeTimeout(triggering[1].TimeIntervals, mock.k)),
                  !.block = <<GenerateEthBlock(ContractAddress)>>,
                  !.generated = @ + 1]
    /\ UNCHANGED <<lightNode, triggering, internalChain, syncPc, subEnded,
                   chainHeadEventCh, headsSent, fwdPc, blockCh, handlers, dualState,
                   assembled, poolOffers, settleVars, crashed>>

\* blockCh <- block: a blocking send
mockSendNonBlocking ==
    /\ ~crashed
    /\ mock.pc = "send"
    /\ blockCh' = ListenerInsert(blockCh, mock.block[1])
    /\ LET nx == MockLoopNext(triggering[1], mock.k)
       IN mock' = [mock EXCEPT !.pc = nx.pc, !.k = nx.k, !.block = <<>>]
    /\ UNCHANGED <<lightNode, triggering, internalChain, syncPc, subEnded,
                   chainHeadEventCh, headsSent, fwdPc, handlers, dualState,
                   assembled, poolOffers, settleVars, crashed>>

mockSend ==
    /\ ~crashed
    /\ mock.pc = "send"
    /\ Len(blockCh) < blockChSize
    /\ blockCh' = Append(blockCh, mock.block[1])
    /\ LET nx == MockLoopNext(triggering[1], mock.k)
       IN mock' = [mock EXCEPT !.pc = nx.pc, !.k = nx.k, !.block = <<>>]
    /\ UNCHANGED <<lightNode, triggering, internalChain, syncPc, subEnded,
                   chainHeadEventCh, headsSent, fwdPc, handlers, dualState,
                   assembled, poolOffers, settleVars, crashed>>

\* ---------------------------------------------------------------------------
\* The drain loop of syncHead and the block handler (handleBlock)
\* ---------------------------------------------------------------------------

NewHandler(block) ==
    [block |-> block, pc |-> "entry", i |-> 1, summaries |-> <<>>, event |-> <<>>,
     nilLogs |-> 0, derefs |-> 0, decodes |-> 0, stateReads |-> 0,
     metaQueries |-> 0, registered |-> FALSE, exit |-> ""]

\* case block := <-blockCh: if !n.config.LightNode { go n.handleBlock(block) }
syncHeadDispatchSync ==
    /\ ~crashed
    /\ syncPc = "draining"
    /\ \A h \in 1..Len(handlers) : handlers[h].pc \in {"returned", "panic"}
    /\ blockCh # <<>>
    /\ blockCh' = Tail(blockCh)
    /\ handlers' = IF ~lightNode THEN Append(handlers, NewHandler(Head(blockCh)))
                   ELSE handlers
    /\ UNCHANGED <<lightNode, triggering, internalChain, syncPc, subEnded,
                   chainHeadEventCh, headsSent, fwdPc, mock, dualState,
                   assembled, poolOffers, settleVars, crashed>>

syncHeadDispatchWhileListening ==
    /\ ~crashed
    /\ syncPc = "draining"
    /\ fwdPc = "listening"
    /\ blockCh # <<>>
    /\ blockCh' = Tail(blockCh)
    /\ handlers' = IF ~lightNode THEN Append(handlers, NewHandler(Head(blockCh)))
                   ELSE handlers
    /\ UNCHANGED <<lightNode, triggering, internalChain, syncPc, subEnded,
                   chainHeadEventCh, headsSent, fwdPc, mock, dualState,
                   assembled, poolOffers, settleVars, crashed>>

syncHeadDispatch ==
    /\ ~crashed
    /\ syncPc = "draining"
    /\ blockCh # <<>>
    /\ blockCh' = Tail(blockCh)
    /\ handlers' = IF ~lightNode THEN Append(handlers, NewHandler(Head(blockCh)))
                   ELSE handlers
    /\ UNCHANGED <<lightNode, triggering, internalChain, syncPc, subEnded,
                   chainHeadEventCh, headsSent, fwdPc, mock, dualState,
                   assembled, poolOffers, settleVars, crashed>>

\* the head of handleBlock: the internal chain check, then the nil block check
HandleEntryNoNilCheck(registered, block) ==
    IF ~registered THEN "panic" ELSE "scan"

HandleEntry(registered, block) ==
    IF ~registered THEN "panic"
    ELSE IF block.isNil THEN "nil"
    ELSE "scan"

\* handleBlock up to the transaction loop; block.Header() and
\* block.Transactions() dereference the block
handleBlockEnter(h) ==
    /\ ~crashed
    /\ handlers[h].pc = "entry"
    /\ LET hd == handlers[h]
           out == HandleEntry(internalChain, hd.block)
       IN IF out = "panic" THEN
             \* panic("Internal chain needs not to be nil.")
             /\ handlers' = [handlers EXCEPT ![h].pc = "panic", ![h].exit = "noInternalChain"]
             /\ crashed' = TRUE
          ELSE IF out = "nil" THEN
             \* "handleBlock with nil block"
             /\ handlers' = [handlers EXCEPT ![h].pc = "returned", ![h].exit = "nil",
                                             ![h].registered = internalChain,
                                             ![h].nilLogs = @ + 1]
             /\ UNCHANGED crashed
          ELSE IF hd.block.isNil THEN
             \* nil pointer dereference
             /\ handlers' = [handlers EXCEPT ![h].pc = "panic", ![h].exit = "nilDeref",
                                             ![h].registered = internalChain,
                                             ![h].derefs = @ + 1]
             /\ crashed' = TRUE
          ELSE
             /\ handlers' = [handlers EXCEPT ![h].pc = "scan", ![h].derefs = @ + 1,
                                             ![h].registered = internalChain]
             /\ UNCHANGED crashed
    /\ UNCHANGED <<lightNode, triggering, internalChain, syncPc, subEnded,
                   chainHeadEventCh, headsSent, fwdPc, blockCh, mock, dualState,
                   assembled, poolOffers, settleVars>>

\* tx.To() != nil && *tx.To() == contractAddr
IsBridgeTxAnyTo(tx, contractAddr) == tx.to # <<>>

IsBridgeTxOrCreation(tx, contractAddr) == tx.to = <<>> \/ tx.to[1] = contractAddr

IsBridgeTx(tx, contractAddr) == tx.to # <<>> /\ tx.to[1] = contractAddr

\* the index of the first transaction at or after i the matcher accepts, 0 if none
RECURSIVE NextMatch(_, _)
NextMatch(txs, i) ==
    IF i > Len(txs) THEN 0
    ELSE IF IsBridgeTx(txs[i], ContractAddress) THEN i
    ELSE NextMatch(txs, i + 1)

\* extractEthTxSummary
extractEthTxSummaryLenient(tx) ==
    [err |-> FALSE,
     summary |-> [TxMethod |-> InputMethodName(tx.input).method, TxValue |-> tx.value]]

extractEthTxSummary(tx) ==
    LET r == InputMethodName(tx.input)
    IN IF r.err THEN [err |-> TRUE, summary |-> [TxMethod |-> "", TxValue |-> 0]]
       ELSE [err |-> FALSE, summary |-> [TxMethod |-> r.method, TxValue |-> tx.value]]

\* statedb.GetNonce(addr)
GetNonce(statedb, addr) == statedb[addr]

\* nonce := dualStateDB.GetNonce(common.HexToAddress(dualbc.DualStateAddressHex))
DualEventNonceOfOther(statedb) == GetNonce(statedb, "other")

DualEventNonce(statedb) == GetNonce(statedb, DualStateAddressHex)

\* types.NewDualEvent(nonce, externalChain, source, txHash, summary)
NewDualEvent(nonce, externalChain, source, txHash, summary) ==
    [Nonce |-> nonce, FromExternal |-> externalChain, TxSource |-> source,
     TxHash |-> txHash, TriggeredEvent |-> summary, PendingTxMetadata |-> <<>>]

\* types.NewDualEvent(nonce, true /* externalChain */, types.ETHEREUM, &txHash,
\* &eventSummary)
AssembleDualEventInternal(nonce, txHash, summary) ==
    NewDualEvent(nonce, FALSE, ETHEREUM, txHash, summary)

AssembleDualEvent(nonce, txHash, summary) ==
    NewDualEvent(nonce, TRUE, ETHEREUM, txHash, summary)

\* n.internalChain.ComputeTxMetadata(event): nil or the metadata of the
\* transaction the internal chain will submit
InternalTxMetadata(summary) ==
    { <<>>, <<[TxHash |-> BytesToHash(<<summary.TxValue % 256>>), Target |-> "KARDIA"]>> }

\* dualEvent.PendingTxMetadata = n.internalChain.ComputeTxMetadata(...)
AttachTxMetadataNone(dualEvent, meta) == dualEvent

AttachTxMetadata(dualEvent, meta) == [dualEvent EXCEPT !.PendingTxMetadata = meta]

\* one pass of the transaction loop up to the call of AddEvent: the matcher,
\* extractEthTxSummary, dualChain.State(), GetNonce, NewDualEvent and
\* ComputeTxMetadata
handleBlockTx(h) ==
    /\ ~crashed
    /\ handlers[h].pc = "scan"
    /\ LET hd == handlers[h]
           j == NextMatch(hd.block.txs, hd.i)
       IN IF j = 0 THEN
             /\ handlers' = [handlers EXCEPT ![h].pc = "returned", ![h].exit = "end",
                                             ![h].i = Len(hd.block.txs) + 1]
             /\ UNCHANGED <<crashed, assembled>>
          ELSE
             LET tx == hd.block.txs[j]
                 r == extractEthTxSummary(tx)
             IN IF r.err THEN
                   \* panic("Not yet implemented!")
                   /\ handlers' = [handlers EXCEPT ![h].pc = "panic", ![h].i = j,
                                                   ![h].exit = "decodeErr",
                                                   ![h].decodes = @ + 1]
                   /\ crashed' = TRUE
                   /\ UNCHANGED assembled
                ELSE
                   \E stateOk \in BOOLEAN :
                      IF ~stateOk THEN
                         \* "Fail to get Kardia state": return
                         /\ handlers' = [handlers EXCEPT
                                           ![h].pc = "returned", ![h].i = j,
                                           ![h].exit = "stateErr",
                                           ![h].decodes = @ + 1,
                                           ![h].summaries = Append(@, r.summary)]
                         /\ UNCHANGED <<crashed, assembled>>
                      ELSE
                         LET nonce == DualEventNonce(dualState)
                             txHash == BytesToHash(TxHash(hd.block.number, tx))
                             ev == AssembleDualEvent(nonce, txHash, r.summary)
                         IN \E meta \in InternalTxMetadata(ev.TriggeredEvent) :
                            LET dualEvent == AttachTxMetadata(ev, meta)
                            IN /\ handlers' = [handlers EXCEPT
                                                 ![h].pc = "add", ![h].i = j,
                                                 ![h].decodes = @ + 1,
                                                 ![h].stateReads = @ + 1,
                                                 ![h].metaQueries = @ + 1,
                                                 ![h].summaries = Append(@, r.summary),
                                                 ![h].event = <<dualEvent>>]
                               /\ assembled' = Append(assembled,
                                     [h |-> h, i |-> j, Nonce |-> dualEvent.Nonce,
                                      stateNonce |-> dualState[DualStateAddressHex],
                                      meta |-> meta])
                               /\ UNCHANGED crashed
    /\ UNCHANGED <<lightNode, triggering, internalChain, syncPc, subEnded,
                   chainHeadEventCh, headsSent, fwdPc, blockCh, mock, dualState,
                   poolOffers, settleVars>>

\* where the transaction loop goes after AddEvent returned, err == nil or not
AfterAddEventContinue(ok) == "scan"

AfterAddEventRetry(ok) == IF ok THEN "scan" ELSE "add"

AfterAddEvent(ok) == IF ok THEN "scan" ELSE "returned"

\* n.eventPool.AddEvent(dualEvent) and the branch on its error
handleBlockAddEvent(h) ==
    /\ ~crashed
    /\ handlers[h].pc = "add"
    /\ \E ok \in BOOLEAN :
         /\ poolOffers' = Append(poolOffers,
               [h |-> h, i |-> handlers[h].i, event |-> handlers[h].event[1], ok |-> ok])
         /\ handlers' = [handlers EXCEPT
                           ![h].pc = AfterAddEvent(ok),
                           ![h].exit = IF AfterAddEvent(ok) = "returned" THEN "poolErr" ELSE @,
                           ![h].i = IF AfterAddEvent(ok) = "add" THEN @ ELSE @ + 1,
                           ![h].event = IF AfterAddEvent(ok) = "add" THEN @ ELSE <<>>]
    /\ UNCHANGED <<lightNode, triggering, internalChain, syncPc, subEnded,
                   chainHeadEventCh, headsSent, fwdPc, blockCh, mock, dualState,
                   assembled, settleVars, crashed>>

\* a block of the dual chain raises the nonce of the dual state account
DualStateChange ==
    /\ ~crashed
    /\ dualState[DualStateAddressHex] < MaxNonce
    /\ dualState' = [dualState EXCEPT ![DualStateAddressHex] = @ + 1]
    /\ UNCHANGED <<lightNode, triggering, internalChain, syncPc, subEnded,
                   chainHeadEventCh, headsSent, fwdPc, blockCh, mock, handlers,
                   assembled, poolOffers, settleVars, crashed>>

\* ---------------------------------------------------------------------------
\* Specifications of the relay
\* ---------------------------------------------------------------------------

\* the relay without a trigger source, fed by the source chain
Init ==
    /\ lightNode \in BOOLEAN
    /\ triggering = <<>>
    /\ InitRelay
    /\ SettleIdle

Next ==
    \/ RegisterInternalChain
    \/ Start
    \/ ChainHeadAny
    \/ SubscriptionErr
    \/ ListenerForward
    \/ ListenerBreak
    \/ syncHeadDispatch
    \/ \E h \in 1..Len(handlers) : handleBlockEnter(h)
    \/ \E h \in 1..Len(handlers) : handleBlockTx(h)
    \/ \E h \in 1..Len(handlers) : handleBlockAddEvent(h)
    \/ DualStateChange

Spec == Init /\ [][Next]_vars

\* the head tracker with the trigger source, fed with nil and one-deposit
\* blocks, up to the dispatch of each block: the dispatched handlers write no
\* variable of the tracker
InitTracker ==
    /\ lightNode \in BOOLEAN
    /\ triggering \in {<<>>} \cup {<<c>> : c \in TriggeringConfigs}
    /\ InitRelay
    /\ SettleIdle

NextTracker ==
    \/ RegisterInternalChain
    \/ Start
    \/ ChainHeadSimple
    \/ SubscriptionErr
    \/ ListenerForward
    \/ ListenerBreak
    \/ mockSleepGenerate
    \/ mockSend
    \/ syncHeadDispatch

SpecTracker == InitTracker /\ [][NextTracker]_vars

\* the scheduling of the goroutines of the tracker: a goroutine that can run
\* is run, and a sender blocked on blockCh is served by the next receive from
\* it (blocked senders of a channel are queued)
FairTracker ==
    /\ WF_vars(ListenerForward)
    /\ WF_vars(ListenerBreak)
    /\ WF_vars(mockSleepGenerate)
    /\ SF_vars(mockSend)
    /\ WF_vars(syncHeadDispatch)

SpecTrackerFair == SpecTracker /\ FairTracker

\* the head tracker with the trigger source and the handlers it dispatches,
\* each run through its entry checks, where a handler panics when no internal
\* chain is registered; the rest of a handler writes no variable of the tracker
ChainHeadFew == ChainHead(SimpleHeadBlocks(headsSent + 1), MaxBlocks)

NextDrain ==
    \/ RegisterInternalChain
    \/ Start
    \/ ChainHeadFew
    \/ SubscriptionErr
    \/ ListenerForward
    \/ ListenerBreak
    \/ mockSleepGenerate
    \/ mockSend
    \/ syncHeadDispatch
    \/ \E h \in 1..Len(handlers) : handleBlockEnter(h)

SpecDrain ==
    /\ InitTracker
    /\ [][NextDrain]_vars
    /\ FairTracker
    /\ WF_vars(\E h \in 1..Len(handlers) : handleBlockEnter(h))

\* ---------------------------------------------------------------------------
\* The poll-triggered settlement (SubmitTx)
\* ---------------------------------------------------------------------------

\* the word a view method of the Kardia master contract returns for amount v:
\* WordLength bytes, big-endian
EncodeWord(v) == [i \in 1..WordLength |-> (v \div (256 ^ (WordLength - i))) % 256]

\* new(big.Int).SetBytes(ret): the bytes as a big-endian unsigned integer
RECURSIVE SetBytes(_)
SetBytes(b) ==
    IF b = <<>> THEN 0
    ELSE 256 * SetBytes(SubSeq(b, 1, Len(b) - 1)) + b[Len(b)]

\* callKardiaMasterGetEthToSend: zero when packing or the call fails
callKardiaMasterGetEthToSendZero(packOk, callOk, ret) == 0

callKardiaMasterGetEthToSend(packOk, callOk, ret) ==
    IF ~packOk THEN 0
    ELSE IF ~callOk THEN 0
    ELSE SetBytes(ret)

\* ethSendValue != nil && ethSendValue.Cmp(big.NewInt(0)) != 0
HasEthToSendAlways(ethSendValue) == TRUE

HasEthToSend(ethSendValue) == ethSendValue # 0

\* pending: what the contract held in the state the cycle read
NewPoll(pc, err, read, value) ==
    [pc |-> pc, err |-> err, read |-> read, ethSendValue |-> value,
     pending |-> kardiaPending, ethStateOk |-> TRUE, nonce |-> 0, built |-> FALSE]

\* whether SubmitTx returns an error: `return err` after a failed
\* kardiaChain.State(), `return nil` at its end
SubmitTxErrNever(read) == FALSE

SubmitTxErr(read) == read = "stateErr"

\* SubmitTx up to the branch on ethSendValue: kardiaChain.State() and
\* callKardiaMasterGetEthToSend on that state
SubmitTxRead ==
    /\ ~crashed
    /\ Len(polls) < MaxPolls
    /\ \E read \in {"stateErr", "packErr", "callErr", "ok"} :
         IF read = "stateErr" THEN
            \* "Fail to get Kardia state": return err
            polls' = Append(polls, NewPoll("returned", SubmitTxErr(read), read, 0))
         ELSE
            LET v == callKardiaMasterGetEthToSend(read # "packErr", read # "callErr",
                                                  EncodeWord(kardiaPending))
            IN polls' = Append(polls,
                  NewPoll(IF HasEthToSend(v) THEN "release" ELSE "returned",
                          SubmitTxErr(read), read, v))
    /\ UNCHANGED <<relayVars, kardiaPending, ethNonce, ethTxPool, txPool, confirmed,
                   metaCall, crashed>>

\* CreateEthReleaseAmountTx: nil when the nonce of the signing account is 0
CreateEthReleaseAmountTx(nonce, quantity) ==
    IF nonce = 0 THEN <<>>
    ELSE <<[kind |-> "release", quantity |-> quantity, nonce |-> nonce]>>

\* what AddLocal of the Ethereum pool and the log line after it can do with tx:
\* a nil transaction is dereferenced by the pool, or by tx.Hash() once the
\* pool returned no error
EthAddLocalOutcomes(tx) ==
    IF tx = <<>> THEN {"err", "panic"} ELSE {"ok", "err"}

\* submitEthReleaseTx(ethSendValue)
submitEthReleaseTx(c) ==
    /\ ~crashed
    /\ polls[c].pc = "release"
    /\ \E stateOk \in BOOLEAN :
         IF ~stateOk THEN
            \* "Fail to get Ethereum state to create release tx": return
            /\ polls' = [polls EXCEPT ![c].pc = "debit", ![c].ethStateOk = FALSE]
            /\ UNCHANGED <<ethTxPool, crashed>>
         ELSE
            LET tx == CreateEthReleaseAmountTx(ethNonce, polls[c].ethSendValue)
            IN \E out \in EthAddLocalOutcomes(tx) :
                 /\ ethTxPool' = Append(ethTxPool, [c |-> c, tx |-> tx, out |-> out])
                 /\ polls' = [polls EXCEPT
                                ![c].pc = IF out = "panic" THEN "panic" ELSE "debit",
                                ![c].nonce = ethNonce,
                                ![c].built = (tx # <<>>)]
                 /\ crashed' = (out = "panic")
    /\ UNCHANGED <<relayVars, kardiaPending, ethNonce, txPool, confirmed, metaCall>>

\* kardia.CreateKardiaRemoveAmountTx(addrKey, statedb, quantity, types.ETHEREUM)
CreateKardiaRemoveAmountTx(quantity, source) ==
    [kind |-> "removeEth", quantity |-> quantity, source |-> source]

\* tx := kardia.CreateKardiaRemoveAmountTx(addrKey, statedb, ethSendValue, types.ETHEREUM)
RemoveEthTxOfZero(ethSendValue) ==
    CreateKardiaRemoveAmountTx(0, ETHEREUM)

RemoveEthTx(ethSendValue) ==
    CreateKardiaRemoveAmountTx(ethSendValue, ETHEREUM)

\* the rest of SubmitTx: the removeEth transaction and txPool.AddLocal
SubmitTxDebit(c) ==
    /\ ~crashed
    /\ polls[c].pc = "debit"
    /\ \E ok \in BOOLEAN :
         txPool' = Append(txPool,
            [c |-> c, tx |-> RemoveEthTx(polls[c].ethSendValue),
             ok |-> ok])
    /\ polls' = [polls EXCEPT ![c].pc = "returned"]
    /\ UNCHANGED <<relayVars, kardiaPending, ethNonce, ethTxPool, confirmed, metaCall,
                   crashed>>

\* a block of Kardia holds a removeEth transaction the pool took: the master
\* contract lowers the amount it holds by the quantity, if it holds that much
DebitConfirmed ==
    /\ ~crashed
    /\ \E k \in 1..Len(txPool) :
         /\ k \notin confirmed
         /\ txPool[k].ok
         /\ confirmed' = confirmed \cup {k}
         /\ kardiaPending' = IF kardiaPending >= txPool[k].tx.quantity
                             THEN kardiaPending - txPool[k].tx.quantity
                             ELSE kardiaPending
    /\ UNCHANGED <<relayVars, ethNonce, polls, ethTxPool, txPool, metaCall, crashed>>

\* ethTx.Hash(): an array of HashLength bytes
ReleaseTxHash(tx) == [i \in 1..HashLength |-> (tx.quantity + tx.nonce + i) % 256]

\* &types.TxMetadata{TxHash: common.Hash(ethTx.Hash()), Target: types.ETHEREUM}
TxMetadataOf(ethTx) == [TxHash |-> ReleaseTxHash(ethTx), Target |-> ETHEREUM]

\* event.Data.TxValue of the events the Kardia dual node asks metadata for
EventValues == {500, 1000}

\* ComputeTxMetadata(event): nil when the Ethereum state cannot be read;
\* ethTx.Hash() dereferences the transaction, which is nil when the nonce is 0
ComputeTxMetadata ==
    /\ ~crashed
    /\ \E value \in EventValues : \E stateOk \in BOOLEAN :
         IF ~stateOk THEN
            \* "Fail to get Ethereum state to create release tx": return nil
            /\ metaCall' = << [value |-> value, stateOk |-> FALSE, ethTx |-> <<>>,
                               result |-> <<>>, out |-> "returned"] >>
            /\ UNCHANGED crashed
         ELSE
            LET ethTx == CreateEthReleaseAmountTx(ethNonce, value)
            IN IF ethTx = <<>> THEN
                  \* nil pointer dereference
                  /\ metaCall' = << [value |-> value, stateOk |-> TRUE, ethTx |-> ethTx,
                                     result |-> <<>>, out |-> "panic"] >>
                  /\ crashed' = TRUE
               ELSE
                  /\ metaCall' = << [value |-> value, stateOk |-> TRUE, ethTx |-> ethTx,
                                     result |-> <<TxMetadataOf(ethTx[1])>>,
                                     out |-> "returned"] >>
                  /\ UNCHANGED crashed
    /\ UNCHANGED <<relayVars, kardiaPending, ethNonce, polls, ethTxPool, txPool, confirmed>>

InitSettlement ==
    /\ lightNode = FALSE
    /\ triggering = <<>>
    /\ InitRelay
    /\ InitSettle

NextSettlement ==
    \/ SubmitTxRead
    \/ \E c \in 1..Len(polls) : submitEthReleaseTx(c)
    \/ \E c \in 1..Len(polls) : SubmitTxDebit(c)
    \/ ComputeTxMetadata
    \/ DebitConfirmed

SpecSettlement == InitSettlement /\ [][NextSettlement]_vars

\* ---------------------------------------------------------------------------
\* The relay with handlers of several blocks at work
\* ---------------------------------------------------------------------------

\* the source chain publishes a block with two bridge transactions among
\* four, then blocks with one
ChainHeadPair ==
    ChainHead({EthBlock(headsSent + 1, IF headsSent = 0 THEN MixedTxs ELSE DepositTxs)},
              MaxHeads)

InitPair ==
    /\ lightNode = FALSE
    /\ triggering = <<>>
    /\ InitRelay
    /\ SettleIdle

NextPair ==
    \/ RegisterInternalChain
    \/ Start
    \/ ChainHeadPair
    \/ ListenerForward
    \/ syncHeadDispatch
    \/ \E h \in 1..Len(handlers) : handleBlockEnter(h)
    \/ \E h \in 1..Len(handlers) : handleBlockTx(h)
    \/ \E h \in 1..Len(handlers) : handleBlockAddEvent(h)
    \/ DualStateChange

SpecPair == InitPair /\ [][NextPair]_vars

\* ---------------------------------------------------------------------------
\* The node: the relay and the settlement in one process
\* ---------------------------------------------------------------------------

\* the node of a test network: the trigger source synthesizes one block with a
\* bridge transaction, and the Kardia side polls SubmitTx while the relay runs
InitNode ==
    /\ lightNode = FALSE
    /\ triggering = << TriggeringConfig(<<7>>, FALSE) >>
    /\ InitRelay
    /\ InitSettle

NextNode ==
    \/ RegisterInternalChain
    \/ Start
    \/ mockSleepGenerate
    \/ mockSend
    \/ syncHeadDispatch
    \/ \E h \in 1..Len(handlers) : handleBlockEnter(h)
    \/ \E h \in 1..Len(handlers) : handleBlockTx(h)
    \/ \E h \in 1..Len(handlers) : handleBlockAddEvent(h)
    \/ SubmitTxRead
    \/ \E c \in 1..Len(polls) : submitEthReleaseTx(c)
    \/ \E c \in 1..Len(polls) : SubmitTxDebit(c)

SpecNode == InitNode /\ [][NextNode]_vars

\* ---------------------------------------------------------------------------
\* Properties of the head tracker
\* ---------------------------------------------------------------------------

\* C1: when the listener takes a head notification while blockCh holds a
\* block, blockCh is left as it is (the new block is dropped); and a block
\* leaves blockCh only by the drain loop taking it and dispatching it to a
\* handler, never by being replaced
C1_KeepOldest ==
    [][ /\ ( /\ chainHeadEventCh # <<>>
             /\ chainHeadEventCh' = Tail(chainHeadEventCh)
             /\ Len(blockCh) = blockChSize )
           => blockCh' = blockCh
        /\ ( blockCh # <<>> /\ blockCh' # blockCh )
           => /\ blockCh' = Tail(blockCh)
              /\ Len(handlers') = Len(handlers) + 1
              /\ handlers'[Len(handlers')].block = Head(blockCh)
      ]_vars

\* two heads were published and taken by the listener, nothing was dispatched,
\* and blockCh holds the first: the second was dropped
C1_Witness ==
    /\ mock.pc = "off"
    /\ headsSent = 2
    /\ chainHeadEventCh = <<>>
    /\ handlers = <<>>
    /\ blockCh = << EthBlock(1, DepositTxs) >>

\* C13 as stated: neither producer is ever suspended by blockCh being full:
\* the listener with a head notification in hand and the trigger source with
\* a block in hand can always take their delivery step
C13_NoProducerSuspended ==
    /\ (~crashed /\ fwdPc = "listening" /\ chainHeadEventCh # <<>>)
          => ENABLED ListenerForward
    /\ (~crashed /\ mock.pc = "send") => ENABLED mockSend

\* C13 amended: the listener is never suspended by blockCh being full and
\* drops its block then; the trigger source is suspended exactly while blockCh
\* is full, and when it delivers, its block is appended to blockCh, never
\* dropped
C13_OnlyListenerNonBlocking ==
    /\ [] ( /\ (~crashed /\ fwdPc = "listening" /\ chainHeadEventCh # <<>>)
                  => ENABLED ListenerForward
            /\ (~crashed /\ mock.pc = "send")
                  => (ENABLED mockSend <=> Len(blockCh) < blockChSize) )
    /\ [][ /\ ( /\ chainHeadEventCh # <<>>
                /\ chainHeadEventCh' = Tail(chainHeadEventCh)
                /\ Len(blockCh) = blockChSize )
              => blockCh' = blockCh
           /\ (mock.pc = "send" /\ mock'.pc # "send")
              => blockCh' = Append(blockCh, mock.block[1])
         ]_vars

\* the trigger source holds a synthesized block while blockCh holds a block
\* the listener forwarded, and the listener has another head notification
C13_Witness ==
    /\ mock.pc = "send"
    /\ Len(blockCh) = blockChSize
    /\ blockCh[1] = EthBlock(1, DepositTxs)
    /\ fwdPc = "listening"
    /\ chainHeadEventCh # <<>>

\* where the trigger source stands in its passes over TimeIntervals
MockInOrder ==
    LET cfg == triggering[1]
        n == Len(cfg.TimeIntervals)
    IN /\ mock.pc = "sleep" => mock.generated % n = mock.k
       /\ mock.pc = "send" => (mock.generated - 1) % n = mock.k
       /\ mock.pc = "done" => mock.generated = n
       /\ Len(mock.slept) = mock.generated
       /\ IF cfg.RepeatInfinitely THEN mock.pc # "done" ELSE mock.generated <= n

MaxDispatched == MaxBlocks + MaxGenerated

\* once the listener has stopped it takes no head notification, and a block
\* that enters blockCh then comes from the trigger source
StoppedListenerInsertsNothing ==
    [][ fwdPc = "stopped" =>
          /\ fwdPc' = "stopped"
          /\ chainHeadEventCh' = chainHeadEventCh
          /\ Len(blockCh') > Len(blockCh) => mock.pc = "send" /\ mock'.pc # "send"
      ]_vars

C24_SleepsIntervalValue ==
    mock.pc # "off" =>
       LET intervals == triggering[1].TimeIntervals
       IN \A m \in 1..Len(mock.slept) :
             mock.slept[m] = intervals[((m - 1) % Len(intervals)) + 1]

\* ---------------------------------------------------------------------------
\* Properties of the poll-triggered settlement
\* ---------------------------------------------------------------------------

\* the calls of the Ethereum pool by poll cycle c that carry a release
\* transaction for amount a
ReleasesOf(c, a) ==
    SelectSeq(ethTxPool, LAMBDA e : e.c = c /\ e.tx # <<>> /\ e.tx[1].quantity = a)

\* the calls of the Kardia pool by poll cycle c that carry a debit for amount a
DebitsOf(c, a) ==
    SelectSeq(txPool, LAMBDA e : e.c = c /\ e.tx.quantity = a)

EthCallsOf(c) == SelectSeq(ethTxPool, LAMBDA e : e.c = c)

KardiaCallsOf(c) == SelectSeq(txPool, LAMBDA e : e.c = c)

C3_ZeroNonceNothingSubmitted ==
    \A c \in 1..Len(polls) :
       ( /\ polls[c].pc \in {"debit", "returned", "panic"}
         /\ polls[c].ethSendValue # 0
         /\ polls[c].ethStateOk
         /\ polls[c].nonce = 0 )
          => /\ ~polls[c].built
             /\ EthCallsOf(c) = <<>>

\* C4: a poll cycle whose amount read is zero, also by a failed pack or call,
\* has returned and has called neither pool
C4_ZeroAmountNoSubmission ==
    \A c \in 1..Len(polls) :
       polls[c].ethSendValue = 0
          => /\ polls[c].pc = "returned"
             /\ EthCallsOf(c) = <<>>
             /\ KardiaCallsOf(c) = <<>>

\* the contract holds 500, the call of the view method failed, zero was
\* substituted and the cycle returned without an error
C4_Witness ==
    \E c \in 1..Len(polls) :
       /\ kardiaPending = 500
       /\ polls[c].read = "callErr"
       /\ polls[c].ethSendValue = 0
       /\ polls[c].pc = "returned"
       /\ ~polls[c].err

\* C5: a poll cycle with a non-zero amount that is past its release step,
\* failed or not, attempts the debit: it never ends without a call of the
\* Kardia pool
C5_DebitAlwaysAttempted ==
    \A c \in 1..Len(polls) :
       (polls[c].ethSendValue # 0 /\ polls[c].pc \in {"returned", "panic"})
          => Len(KardiaCallsOf(c)) = 1

\* C18: a poll cycle goes from its read to its end when the amount is zero
\* and to its release step otherwise, from the release step to the debit step
\* and from the debit step to its end, by no other step; the Ethereum pool is
\* called in the release step only, the Kardia pool in the debit step only and
\* with the amount the cycle read
C18_CycleOrder ==
    [][ /\ \A c \in 1..Len(polls') :
             IF c > Len(polls)
             THEN polls'[c].pc = IF polls'[c].ethSendValue = 0 THEN "returned" ELSE "release"
             ELSE /\ polls'[c].ethSendValue = polls[c].ethSendValue
                  /\ polls'[c].pc # polls[c].pc
                        => <<polls[c].pc, polls'[c].pc>> \in
                              { <<"release", "debit">>, <<"debit", "returned">> }
        /\ Len(ethTxPool') > Len(ethTxPool)
             => LET e == ethTxPool'[Len(ethTxPool')]
                IN polls[e.c].pc = "release" /\ polls'[e.c].pc = "debit"
        /\ Len(txPool') > Len(txPool)
             => LET e == txPool'[Len(txPool')]
                IN /\ polls[e.c].pc = "debit" /\ polls'[e.c].pc = "returned"
                   /\ e.tx.quantity = polls[e.c].ethSendValue
      ]_vars

C21_ErrorOnlyOnStateRead ==
    \A c \in 1..Len(polls) :
       /\ polls[c].read = "stateErr"
             => /\ polls[c].pc = "returned"
                /\ polls[c].err
                /\ EthCallsOf(c) = <<>>
                /\ KardiaCallsOf(c) = <<>>
       /\ polls[c].read # "stateErr" => ~polls[c].err

\* one cycle failed to read the Kardia state and returned the error; another
\* read 500, had both pools refuse its transactions and returned no error
C21_Witness ==
    \E c1 \in 1..Len(polls) : \E c2 \in 1..Len(polls) :
       /\ polls[c1].read = "stateErr"
       /\ polls[c1].err
       /\ polls[c2].pc = "returned"
       /\ ~polls[c2].err
       /\ Len(EthCallsOf(c2)) = 1
       /\ EthCallsOf(c2)[1].out = "err"
       /\ Len(KardiaCallsOf(c2)) = 1
       /\ ~KardiaCallsOf(c2)[1].ok

\* ---------------------------------------------------------------------------
\* Properties of the block handler
\* ---------------------------------------------------------------------------

\* the transactions of a block addressed to the bridge contract, in block order
BridgeTxs(block) == SelectSeq(block.txs, LAMBDA t : t.to = <<ContractAddress>>)

SummaryOf(tx) == [TxMethod |-> InputMethodName(tx.input).method, TxValue |-> tx.value]

ExpectedSummaries(block) ==
    [k \in 1..Len(BridgeTxs(block)) |-> SummaryOf(BridgeTxs(block)[k])]

\* the number of bridge transactions among the first n of the block
BridgeCount(block, n) ==
    Cardinality({k \in 1..Len(block.txs) : k <= n /\ block.txs[k].to = <<ContractAddress>>})

IsPrefix(s, t) == Len(s) <= Len(t) /\ s = SubSeq(t, 1, Len(s))

OffersOf(h) == SelectSeq(poolOffers, LAMBDA o : o.h = h)

AssembledOf(h) == SelectSeq(assembled, LAMBDA a : a.h = h)

\* the calls of eventPool.AddEvent by handler h for transaction j of its block
OffersOfTx(h, j) == SelectSeq(poolOffers, LAMBDA o : o.h = h /\ o.i = j)

C7_OneEventQueued ==
    \A h \in 1..Len(handlers) :
       LET hd == handlers[h]
           b == BridgeTxs(hd.block)
       IN (Len(b) = 1 /\ hd.exit = "end")
             => /\ Len(OffersOf(h)) = 1
                /\ Len(AssembledOf(h)) = 1
                /\ OffersOf(h)[1].ok
                /\ LET e == OffersOf(h)[1].event
                   IN /\ e.FromExternal = TRUE
                      /\ e.TxSource = ETHEREUM
                      /\ e.TxHash = TxHash(hd.block.number, b[1])
                      /\ e.TriggeredEvent = SummaryOf(b[1])
                      /\ e.Nonce = AssembledOf(h)[1].stateNonce

\* the block with the single deposit of 1000 was handled to its end
C7_Witness ==
    \E h \in 1..Len(handlers) :
       /\ handlers[h].block.txs = DepositTxs
       /\ handlers[h].exit = "end"
       /\ Len(OffersOf(h)) = 1
       /\ OffersOf(h)[1].event.TriggeredEvent = [TxMethod |-> "deposit", TxValue |-> 1000]
       /\ OffersOf(h)[1].event.FromExternal

\* C8: each event carries the nonce the dual state account had at the one
\* state read of its assembly, and of two events assembled with no change of
\* that nonce between them the later carries no smaller nonce
C8_NonceAtAssembly ==
    /\ \A k \in 1..Len(assembled) : assembled[k].Nonce = assembled[k].stateNonce
    /\ \A h \in 1..Len(handlers) :
          handlers[h].stateReads = Len(AssembledOf(h))
    /\ \A k \in 1..Len(assembled) : \A l \in 1..Len(assembled) :
          (k < l /\ assembled[k].stateNonce = assembled[l].stateNonce)
             => assembled[k].Nonce <= assembled[l].Nonce
    /\ \A k \in 1..Len(poolOffers) :
          \E l \in 1..Len(assembled) :
             /\ assembled[l].h = poolOffers[k].h
             /\ assembled[l].i = poolOffers[k].i
             /\ assembled[l].Nonce = poolOffers[k].event.Nonce

\* two events were assembled one after the other with the nonce unchanged
\* between them, both offered to the pool, and the nonce has changed since
C8_Witness ==
    /\ Len(assembled) >= 2
    /\ Len(poolOffers) >= 2
    /\ assembled[1].stateNonce = assembled[2].stateNonce
    /\ dualState[DualStateAddressHex] # assembled[1].stateNonce

\* C9 as stated: a handler given a nil block and past its entry has returned
\* with one log record, no dereference of the block, no state read and no
\* event, whatever the configuration
C9_NilBlockNeverPanics ==
    \A h \in 1..Len(handlers) :
       (handlers[h].block.isNil /\ handlers[h].pc # "entry")
          => /\ handlers[h].pc = "returned"
             /\ handlers[h].nilLogs = 1
             /\ handlers[h].derefs = 0
             /\ handlers[h].stateReads = 0
             /\ OffersOf(h) = <<>>

\* C9 amended: a handler given a nil block never dereferences it, reads no
\* state and produces no event; when an internal chain is registered it logs
\* once and returns, and when none is registered it panics at its entry
C9_NilBlockNoOp ==
    \A h \in 1..Len(handlers) :
       LET hd == handlers[h]
       IN (hd.block.isNil /\ hd.pc # "entry")
             => /\ hd.derefs = 0
                /\ hd.decodes = 0
                /\ hd.stateReads = 0
                /\ hd.summaries = <<>>
                /\ AssembledOf(h) = <<>>
                /\ OffersOf(h) = <<>>
                /\ IF hd.registered
                   THEN hd.pc = "returned" /\ hd.nilLogs = 1
                   ELSE hd.pc = "panic" /\ hd.exit = "noInternalChain" /\ hd.nilLogs = 0

\* a nil block was dispatched with an internal chain registered
C9_Witness ==
    \E h \in 1..Len(handlers) :
       /\ handlers[h].block.isNil
       /\ handlers[h].registered
       /\ handlers[h].pc = "returned"
       /\ handlers[h].nilLogs = 1

\* C10: a handler does not leave a block on a rejection by the event pool
\* while a later bridge transaction of the block has not been handled
C10_LaterTxsStillOffered ==
    \A h \in 1..Len(handlers) :
       handlers[h].exit = "poolErr"
          => ~ \E j \in handlers[h].i..Len(handlers[h].block.txs) :
                  handlers[h].block.txs[j].to = <<ContractAddress>>

\* C17: a handler decodes, reads the dual state, asks for metadata and offers
\* an event for bridge transactions only, and the k-th event it offers is
\* that of the k-th bridge transaction of its block, whatever transactions
\* stand around it
C17_OthersNoEffect ==
    \A h \in 1..Len(handlers) :
       LET hd == handlers[h]
           b == BridgeTxs(hd.block)
       IN /\ hd.decodes = Len(hd.summaries) + (IF hd.exit = "decodeErr" THEN 1 ELSE 0)
          /\ hd.decodes <= BridgeCount(hd.block, hd.i)
          /\ hd.exit = "decodeErr" => hd.block.txs[hd.i].to = <<ContractAddress>>
          /\ hd.stateReads <= hd.decodes
          /\ hd.metaQueries <= hd.stateReads
          /\ Len(AssembledOf(h)) <= hd.decodes
          /\ \A k \in 1..Len(AssembledOf(h)) :
                hd.block.txs[AssembledOf(h)[k].i] = b[k]
          /\ Len(OffersOf(h)) <= Len(b)
          /\ \A k \in 1..Len(OffersOf(h)) :
                LET o == OffersOf(h)[k]
                IN /\ hd.block.txs[o.i] = b[k]
                   /\ o.event.TriggeredEvent = SummaryOf(b[k])
                   /\ o.event.TxHash = TxHash(hd.block.number, b[k])

\* the handler of the block with two bridge transactions among four reached
\* the end of the block with two decodes, two state reads and two offers
C17_Witness ==
    \E h \in 1..Len(handlers) :
       /\ handlers[h].block.txs = MixedTxs
       /\ handlers[h].exit = "end"
       /\ handlers[h].decodes = 2
       /\ handlers[h].stateReads = 2
       /\ handlers[h].metaQueries = 2
       /\ Len(OffersOf(h)) = 2

\* transaction j of the block is addressed to the bridge contract and its
\* input selects no method of the contract
Undecodable(block, j) ==
    /\ block.txs[j].to = <<ContractAddress>>
    /\ InputMethodName(block.txs[j].input).err

\* C20: a handler that comes to a bridge transaction whose input does not
\* decode panics there and the process ends: no event is ever assembled or
\* offered for that transaction or a later one of the block, and the events
\* offered for the earlier bridge transactions stay in the pool's record
C20_DecodeFailureHalts ==
    \A h \in 1..Len(handlers) :
       LET hd == handlers[h]
       IN /\ \A j \in 1..Len(hd.block.txs) :
                Undecodable(hd.block, j)
                   => /\ hd.i <= j
                      /\ hd.i = j => hd.pc # "add"
                      /\ hd.i = j => hd.exit \notin {"stateErr", "end"}
                      /\ \A l \in j..Len(hd.block.txs) : OffersOfTx(h, l) = <<>>
                      /\ \A k \in 1..Len(AssembledOf(h)) : AssembledOf(h)[k].i < j
          /\ hd.exit = "decodeErr"
                => /\ Undecodable(hd.block, hd.i)
                   /\ hd.pc = "panic"
                   /\ crashed
                   /\ Len(OffersOf(h)) = BridgeCount(hd.block, hd.i - 1)
                   /\ \A k \in 1..Len(OffersOf(h)) : OffersOf(h)[k].ok

\* the handler of the block whose second bridge transaction does not decode
\* panicked there, after the pool took the event of the first
C20_Witness ==
    \E h \in 1..Len(handlers) :
       /\ handlers[h].block.txs = BadInputTxs
       /\ handlers[h].exit = "decodeErr"
       /\ handlers[h].i = 2
       /\ crashed
       /\ Len(OffersOf(h)) = 1
       /\ OffersOf(h)[1].ok
       /\ OffersOf(h)[1].event.TriggeredEvent = [TxMethod |-> "release", TxValue |-> 500]

\* C22: the events a handler offers are in the order of the transactions of
\* its block; the drain loop dispatches the next block whatever the handlers
\* of earlier blocks are doing, and a handler takes each of its steps whatever
\* the other handlers are doing
C22_OrderWithinHandlerOnly ==
    /\ \A h \in 1..Len(handlers) :
          \A k \in 1..Len(OffersOf(h)) : \A l \in 1..Len(OffersOf(h)) :
             k < l => OffersOf(h)[k].i < OffersOf(h)[l].i
    /\ (~crashed /\ syncPc = "draining" /\ blockCh # <<>>) => ENABLED syncHeadDispatch
    /\ \A h \in 1..Len(handlers) :
          ~crashed =>
             /\ handlers[h].pc = "entry" => ENABLED handleBlockEnter(h)
             /\ handlers[h].pc = "scan" => ENABLED handleBlockTx(h)
             /\ handlers[h].pc = "add" => ENABLED handleBlockAddEvent(h)

\* block 1 was dispatched before block 2, the event of block 2 was offered
\* before the first event of block 1, which offered its second after it, and
\* the events of the two handlers carry the same nonce
C22_Witness ==
    /\ Len(handlers) = 2
    /\ handlers[1].block.number = 1
    /\ handlers[2].block.number = 2
    /\ Len(poolOffers) = 3
    /\ poolOffers[1].h = 2
    /\ poolOffers[2].h = 1 /\ poolOffers[2].i = 2
    /\ poolOffers[3].h = 1 /\ poolOffers[3].i = 4
    /\ poolOffers[1].event.Nonce = poolOffers[2].event.Nonce
    /\ assembled[1].h = 1
    /\ assembled[1].stateNonce = assembled[2].stateNonce

\* C23: the event a handler holds before the call of AddEvent carries what
\* ComputeTxMetadata of the internal chain returned for it, asked once, and
\* has not been offered yet; the event offered is that event, and an event
\* the pool was offered is never written again
C23_MetadataBeforeHandoff ==
    /\ [] ( /\ \A h \in 1..Len(handlers) :
                 /\ handlers[h].metaQueries = Len(AssembledOf(h))
                 /\ handlers[h].pc = "add"
                       => /\ handlers[h].event[1].PendingTxMetadata =
                                AssembledOf(h)[Len(AssembledOf(h))].meta
                          /\ AssembledOf(h)[Len(AssembledOf(h))].i = handlers[h].i
                          /\ OffersOfTx(h, handlers[h].i) = <<>>
            /\ \A k \in 1..Len(poolOffers) :
                 \E l \in 1..Len(assembled) :
                    /\ assembled[l].h = poolOffers[k].h
                    /\ assembled[l].i = poolOffers[k].i
                    /\ assembled[l].meta = poolOffers[k].event.PendingTxMetadata )
    /\ [][ /\ \A k \in 1..Len(poolOffers) :
                Len(poolOffers') >= k /\ poolOffers'[k] = poolOffers[k]
           /\ Len(poolOffers') > Len(poolOffers)
                => LET o == poolOffers'[Len(poolOffers')]
                   IN /\ Len(poolOffers') = Len(poolOffers) + 1
                      /\ handlers[o.h].pc = "add"
                      /\ o.event = handlers[o.h].event[1]
                      /\ handlers'[o.h].event = <<>>
         ]_vars

\* the pool took an event that carries the metadata the internal chain
\* returned for it, and its handler has reached the end of the block
C23_Witness ==
    \E k \in 1..Len(poolOffers) :
       /\ poolOffers[k].ok
       /\ poolOffers[k].event.PendingTxMetadata # <<>>
       /\ poolOffers[k].event.PendingTxMetadata[1].Target = "KARDIA"
       /\ handlers[poolOffers[k].h].exit = "end"

\* ---------------------------------------------------------------------------
\* Properties of the node
\* ---------------------------------------------------------------------------

\* C11: no submission is made again: a handler calls AddEvent at most once for
\* a transaction of its block, and a poll cycle calls the Ethereum pool at
\* most once and the Kardia pool at most once, whatever the calls returned; a
\* handler whose event was refused has returned
C11_NoRetry ==
    /\ \A h \in 1..Len(handlers) :
          /\ \A j \in 1..Len(handlers[h].block.txs) : Len(OffersOfTx(h, j)) <= 1
          /\ \A k \in 1..Len(OffersOf(h)) :
                ~OffersOf(h)[k].ok
                   => /\ k = Len(OffersOf(h))
                      /\ handlers[h].pc = "returned"
    /\ \A c \in 1..Len(polls) :
          /\ Len(EthCallsOf(c)) <= 1
          /\ Len(KardiaCallsOf(c)) <= 1

\* the event pool refused the event of a handler, which has returned, and
\* both pools refused the transactions of a poll cycle, which has returned
C11_Witness ==
    /\ \E h \in 1..Len(handlers) :
          /\ handlers[h].exit = "poolErr"
          /\ Len(OffersOf(h)) = 1
          /\ ~OffersOf(h)[1].ok
    /\ \E c \in 1..Len(polls) :
          /\ polls[c].pc = "returned"
          /\ Len(EthCallsOf(c)) = 1
          /\ EthCallsOf(c)[1].out = "err"
          /\ Len(KardiaCallsOf(c)) = 1
          /\ ~KardiaCallsOf(c)[1].ok

\* ---------------------------------------------------------------------------
\* Properties of the failures
\* ---------------------------------------------------------------------------

\* C12: the process is ended by a panic only when a handler failed to decode
\* the input of a bridge transaction: not by a state read failure, a zero
\* nonce, a refusal of a pool or a nil block
C12_OnlyDecodeCrashes ==
    crashed => \E h \in 1..Len(handlers) : handlers[h].exit = "decodeErr"

\* C15: a call of ComputeTxMetadata leaves both transaction pools and the
\* event pool as they are and returns: nil when the Ethereum state cannot be
\* read, and otherwise the hash of the release transaction built for the
\* value of the event with the tag of Ethereum
C15_PureQuery ==
    [][ metaCall' # metaCall =>
          /\ UNCHANGED <<ethTxPool, txPool, poolOffers>>
          /\ LET r == metaCall'[1]
             IN /\ r.out = "returned"
                /\ r.stateOk =>
                     /\ r.ethTx # <<>>
                     /\ r.ethTx[1].quantity = r.value
                     /\ r.result = << [TxHash |-> ReleaseTxHash(r.ethTx[1]),
                                       Target |-> ETHEREUM] >>
                /\ ~r.stateOk => r.result = <<>>
      ]_vars

====
